---- MODULE Spec2Model ----
(***************************************************************************)
(* Model of the multiplayer-beats room server (server/socket, server/rooms)*)
(* and of the client turn manager hook (app/hooks/useTurnManager.ts).      *)
(*                                                                         *)
(* Spec        the Socket.IO server: room registry, join/disconnect and    *)
(*             the per-connection event handlers.                          *)
(* SpecTurn    one useTurnManager instance: its state, the interval tick   *)
(*             and the deferred endTurn callback.                          *)
(* SpecEndTurn the two EndTurn transition functions applied to every turn  *)
(*             state of the bounded domain.                                *)
(* SpecFair    Spec with the fairness of the event loop.                   *)
(* SpecRooms   the server with two room codes in use.                      *)
(* SpecClient  two browsers on the room page (app/routes/room.tsx), the    *)
(*             server, and the messages in flight between them.            *)
(* SpecToggles SpecClient without the clear-pattern and reset-game intents.*)
(***************************************************************************)
EXTENDS Integers, Sequences, FiniteSets

(***************************************************************************)
(* Bounds of the model.                                                    *)
(***************************************************************************)
NSockets == 3
MaxRound == 2
MaxPending == 1

Sockets == 1..NSockets

\* room codes known to the model, and the ones join-room messages of Spec name
AllRoomIds == { "ABC123", "XYZ789" }
RoomIds == { "ABC123" }

(***************************************************************************)
(* Program constants (server/types).                                       *)
(***************************************************************************)
INSTRUMENTS == 4
STEPS == 16
DEFAULT_BPM == 120
TURN_DURATION == 60

(***************************************************************************)
(* Inputs carried by client messages.  Display names are sequences of     *)
(* character codes: "Ab", "aB", "B" and "c".                               *)
(***************************************************************************)
Names == { <<65, 98>>, <<97, 66>>, <<66>>, <<99>> }
BpmInputs == { 200 }
InstrumentInputs == { 0, 4 }
StepInputs == { 0 }

VARIABLES
    rooms,         \* registry: roomId -> Room, for the rooms that exist
    connected,     \* connections that are open
    members,       \* Socket.IO adapter rooms: roomId -> sockets that joined
    emitted,       \* what the handler task that is running has sent: messages
                   \* to connections, and lines on the server console
    toggles,       \* history: roomId -> cell -> number of toggles applied to
                   \* the cell, mod 2, since the room's grid was last created
    turn,          \* useTurnManager state
    pendingEndTurn,\* setTimeout(() => endTurn(), 0) callbacks not yet run
    lastTurnEnd,   \* argument of the latest onTurnEnd notification (0: none)
    autoEnd,       \* history: the state a zero tick acted on, and whether
                   \* the rotation it scheduled has run
    timers,        \* the hook's interval timers: the armed ones, timerIdRef,
                   \* the id the effect's cleanup closes over (0: none), and
                   \* history: whether the latest effect run replaced a timer
    etIn, etOut, etBy, \* SpecEndTurn: input, result, and function applied
    client,        \* per browser: the sequencer store's grid and useSocket's
                   \* roomState
    outbox,        \* per browser: messages sent to the server, not yet handled
    inbox          \* per browser: server messages in flight to it, each with
                   \* (history) the room's turn state when it was emitted

vars == << rooms, connected, members, emitted, toggles,
           turn, pendingEndTurn, lastTurnEnd, autoEnd, timers,
           etIn, etOut, etBy, client, outbox, inbox >>
serverVars == << rooms, connected, members, emitted, toggles >>
hookVars == << turn, pendingEndTurn, lastTurnEnd, autoEnd, timers >>
etVars == << etIn, etOut, etBy >>
clientVars == << client, outbox, inbox >>

(***************************************************************************)
(* server/rooms                                                            *)
(***************************************************************************)
createEmptySteps == [i \in 0..(INSTRUMENTS - 1) |-> [j \in 0..(STEPS - 1) |-> FALSE]]

InitialTurn ==
    [currentPlayer |-> 1, timeRemaining |-> TURN_DURATION,
     isActive |-> FALSE, round |-> 1]

NewRoom ==
    [players |-> << >>, steps |-> createEmptySteps, bpm |-> DEFAULT_BPM,
     turn |-> InitialTurn]

getRoomAlwaysCreates(reg, roomId) ==
    [r \in (DOMAIN reg) \cup {roomId} |->
        IF r = roomId THEN NewRoom ELSE reg[r]]

\* getRoom: the registry after get-or-create of roomId
getRoom(reg, roomId) ==
    IF roomId \in DOMAIN reg
    THEN reg
    ELSE [r \in (DOMAIN reg) \cup {roomId} |->
             IF r = roomId THEN NewRoom ELSE reg[r]]

isRoomFullOffByOne(room) == Cardinality(DOMAIN room.players) > 2

isRoomFull(room) == Cardinality(DOMAIN room.players) >= 2

isRoomEmptyNever(room) == FALSE

isRoomEmptyOffByOne(room) == Cardinality(DOMAIN room.players) = 1

isRoomEmpty(room) == Cardinality(DOMAIN room.players) = 0

roomsGetOrCreate(reg, roomId) == getRoom(reg, roomId)

roomsGetClearingSteps(reg, roomId) ==
    [r \in DOMAIN reg |->
        IF r = roomId THEN [reg[r] EXCEPT !.steps = createEmptySteps] ELSE reg[r]]

\* rooms.get(roomId): the registry after the lookup
roomsGet(reg, roomId) == reg

(***************************************************************************)
(* String.prototype.toLowerCase on ASCII codes.                            *)
(***************************************************************************)
toLowerCaseIdentity(str) == str

toLowerCase(str) ==
    [k \in 1..Len(str) |->
        IF str[k] >= 65 /\ str[k] <= 90 THEN str[k] + 32 ELSE str[k]]

Msg(to, event, payload) == [to |-> to, event |-> event, payload |-> payload]

NoPayload == [none |-> TRUE]

\* recipient of console.log lines and of the report of an uncaught exception
Console == 0

Log(text, about) == Msg(Console, "log", [text |-> text, about |-> about])

UncaughtTypeError == Msg(Console, "uncaught-exception", [name |-> "TypeError"])

\* the cells of the grid that toggle-step inputs address
TrackedCells ==
    { c \in InstrumentInputs \X StepInputs :
          c[1] \in 0..(INSTRUMENTS - 1) /\ c[2] \in 0..(STEPS - 1) }

ZeroToggles == [c \in TrackedCells |-> 0]

\* io.to(roomId).emit
EmitToRoom(mem, roomId, event, payload) ==
    { Msg(t, event, payload) : t \in mem[roomId] }

EmitToOthersAndSender(mem, s, roomId, event, payload) ==
    { Msg(t, event, payload) : t \in mem[roomId] }

\* socket.to(roomId).emit
EmitToOthers(mem, s, roomId, event, payload) ==
    { Msg(t, event, payload) : t \in mem[roomId] \ {s} }

PlayerList(room) ==
    { [id |-> p, name |-> room.players[p].name,
       playerNumber |-> room.players[p].playerNumber] : p \in DOMAIN room.players }

SnapshotEmptyGrid(roomId, room) ==
    [id |-> roomId, steps |-> createEmptySteps, bpm |-> room.bpm,
     turn |-> room.turn, players |-> PlayerList(room)]

\* the room object of the joined-room payload
Snapshot(roomId, room) ==
    [id |-> roomId, steps |-> room.steps, bpm |-> room.bpm,
     turn |-> room.turn, players |-> PlayerList(room)]

(***************************************************************************)
(* The event loop runs one handler at a time: `emitted` collects what the *)
(* running task sends, and is empty again once the task has completed.    *)
(***************************************************************************)
TaskIdle == emitted = {}

\* an uncaught exception ends the process: no task completes after it
TaskDone ==
    /\ emitted # {}
    /\ UncaughtTypeError \notin emitted
    /\ emitted' = {}
    /\ UNCHANGED << rooms, connected, members, toggles, hookVars, etVars >>

(***************************************************************************)
(* join-room handler                                                       *)
(***************************************************************************)
NameTakenCaseSensitive(room, playerName) ==
    \E p \in DOMAIN room.players : room.players[p].name = playerName

\* existingPlayer !== undefined
NameTaken(room, playerName) ==
    \E p \in DOMAIN room.players :
        toLowerCase(room.players[p].name) = toLowerCase(playerName)

SetPlayer(players, s, entry) ==
    [p \in (DOMAIN players) \cup {s} |-> IF p = s THEN entry ELSE players[p]]

JoinRoom(s, roomId, playerName) ==
    /\ s \in connected
    /\ TaskIdle
    /\ LET reg == getRoom(rooms, roomId)
           room == reg[roomId]
       IN  IF NameTaken(room, playerName)
           THEN /\ rooms' = reg
                /\ members' = members
                /\ emitted' = { Msg(s, "join-rejected", [reason |-> "name-taken"]) }
           ELSE IF isRoomFull(room)
           THEN /\ rooms' = reg
                /\ members' = members
                /\ emitted' = { Msg(s, "room-full", NoPayload) }
           ELSE LET playerNum == Cardinality(DOMAIN room.players) + 1
                    mem == [members EXCEPT ![roomId] = @ \cup {s}]
                    newRoom == [room EXCEPT !.players =
                                   SetPlayer(@, s, [name |-> playerName,
                                                    playerNumber |-> playerNum])]
                IN  /\ rooms' = [reg EXCEPT ![roomId] = newRoom]
                    /\ members' = mem
                    /\ emitted' =
                         { Msg(s, "joined-room",
                               [playerNumber |-> playerNum,
                                room |-> Snapshot(roomId, newRoom)]) }
                         \cup EmitToOthers(mem, s, roomId, "player-joined",
                                  [playerNumber |-> playerNum,
                                   player |-> [id |-> s, name |-> playerName]])
                         \cup { Log("player-joined", s) }
    /\ toggles' = IF roomId \in DOMAIN rooms
                  THEN toggles
                  ELSE [toggles EXCEPT ![roomId] = ZeroToggles]
    /\ UNCHANGED << connected, hookVars, etVars >>

(***************************************************************************)
(* connection and disconnect                                               *)
(***************************************************************************)
Connect(s) ==
    /\ s \notin connected
    /\ TaskIdle
    /\ connected' = connected \cup {s}
    /\ emitted' = { Log("client-connected", s) }
    /\ UNCHANGED << rooms, members, toggles, hookVars, etVars >>

deletePlayerRenumbering(room, s) ==
    [room EXCEPT !.players =
        [p \in (DOMAIN @) \ {s} |-> [@[p] EXCEPT !.playerNumber = 1]]]

\* room.players.delete(socket.id)
deletePlayer(room, s) ==
    [room EXCEPT !.players = [p \in (DOMAIN @) \ {s} |-> @[p]]]

Disconnect(s) ==
    /\ s \in connected
    /\ TaskIdle
    /\ connected' = connected \ {s}
    /\ members' = [r \in AllRoomIds |-> members[r] \ {s}]
    /\ LET holding == { r \in DOMAIN rooms : s \in DOMAIN rooms[r].players }
           emptied == { r \in holding : isRoomEmpty(deletePlayer(rooms[r], s)) }
       IN  /\ rooms' = [r \in (DOMAIN rooms) \ emptied |->
                           IF r \in holding THEN deletePlayer(rooms[r], s)
                                            ELSE rooms[r]]
           /\ emitted' = { Log("client-disconnected", s) }
                          \cup UNION { EmitToOthers(members', s, r, "player-left",
                                                    [playerId |-> s]) : r \in holding }
                          \cup { Log("room-deleted", r) : r \in emptied }
           /\ toggles' = [r \in AllRoomIds |->
                             IF r \in emptied THEN ZeroToggles ELSE toggles[r]]
    /\ UNCHANGED << hookVars, etVars >>

(***************************************************************************)
(* toggle-step handler                                                     *)
(***************************************************************************)
NotYourTurnIgnored(room, player) == FALSE

NotYourTurnWhenIdle(room, player) ==
    player.playerNumber # room.turn.currentPlayer

NotYourTurn(room, player) ==
    room.turn.isActive /\ player.playerNumber # room.turn.currentPlayer

ToggleCellSetsActive(steps, i, j) == [steps EXCEPT ![i][j] = TRUE]

\* room.steps[i][j] = !room.steps[i][j], for a row i that exists; an index j
\* past the end of the row reads undefined and the assignment grows the row
ToggleCell(steps, i, j) ==
    IF j \in DOMAIN steps[i]
    THEN [steps EXCEPT ![i][j] = ~@]
    ELSE [steps EXCEPT ![i] =
             [k \in 0..j |-> IF k \in DOMAIN steps[i] THEN steps[i][k] ELSE k = j]]

ToggleStep(s, roomId, instrumentIndex, stepIndex) ==
    /\ s \in connected
    /\ TaskIdle
    /\ LET reg == roomsGet(rooms, roomId)
       IN  IF roomId \notin DOMAIN reg
           THEN /\ rooms' = reg
                /\ emitted' = {}
                /\ toggles' = toggles
           ELSE LET room == reg[roomId]
                IN  IF s \notin DOMAIN room.players
                    THEN /\ rooms' = reg
                         /\ emitted' = {}
                         /\ toggles' = toggles
                    ELSE IF NotYourTurn(room, room.players[s])
                    THEN /\ rooms' = reg
                         /\ emitted' =
                              { Msg(s, "not-your-turn",
                                    [currentPlayer |-> room.turn.currentPlayer,
                                     yourPlayer |-> room.players[s].playerNumber]) }
                         /\ toggles' = toggles
                    ELSE IF instrumentIndex \notin DOMAIN room.steps
                    THEN \* room.steps[instrumentIndex] is undefined
                         /\ rooms' = reg
                         /\ emitted' = { UncaughtTypeError }
                         /\ toggles' = toggles
                    ELSE LET steps == ToggleCell(room.steps, instrumentIndex, stepIndex)
                         IN  /\ rooms' = [reg EXCEPT ![roomId].steps = steps]
                             /\ emitted' =
                                  EmitToOthers(members, s, roomId, "step-toggled",
                                      [instrumentIndex |-> instrumentIndex,
                                       stepIndex |-> stepIndex,
                                       active |-> steps[instrumentIndex][stepIndex],
                                       playerId |-> s])
                             /\ toggles' =
                                  IF << instrumentIndex, stepIndex >> \in TrackedCells
                                  THEN [toggles EXCEPT
                                           ![roomId][<< instrumentIndex, stepIndex >>] =
                                               (@ + 1) % 2]
                                  ELSE toggles
    /\ UNCHANGED << connected, members, hookVars, etVars >>

(***************************************************************************)
(* set-bpm handler                                                         *)
(***************************************************************************)
SetBpmTurnGated(s, roomId, bpm) ==
    /\ s \in connected
    /\ TaskIdle
    /\ LET reg == roomsGet(rooms, roomId)
       IN  IF roomId \notin DOMAIN reg
           THEN /\ rooms' = reg
                /\ emitted' = {}
           ELSE IF s \in DOMAIN reg[roomId].players
                   /\ NotYourTurn(reg[roomId], reg[roomId].players[s])
           THEN /\ rooms' = reg
                /\ emitted' = { Msg(s, "not-your-turn", NoPayload) }
           ELSE /\ rooms' = [reg EXCEPT ![roomId].bpm = bpm]
                /\ emitted' = EmitToOthers(members, s, roomId, "bpm-changed",
                                           [bpm |-> bpm, playerId |-> s])
    /\ UNCHANGED << connected, members, toggles, hookVars, etVars >>

SetBpm(s, roomId, bpm) ==
    /\ s \in connected
    /\ TaskIdle
    /\ LET reg == roomsGet(rooms, roomId)
       IN  IF roomId \notin DOMAIN reg
           THEN /\ rooms' = reg
                /\ emitted' = {}
           ELSE /\ rooms' = [reg EXCEPT ![roomId].bpm = bpm]
                /\ emitted' = EmitToOthers(members, s, roomId, "bpm-changed",
                                           [bpm |-> bpm, playerId |-> s])
    /\ UNCHANGED << connected, members, toggles, hookVars, etVars >>

(***************************************************************************)
(* start-turn, end-turn, reset-game, clear-pattern handlers                *)
(***************************************************************************)
TurnPayload(t) ==
    [currentPlayer |-> t.currentPlayer, timeRemaining |-> t.timeRemaining,
     round |-> t.round]

serverStartTurnMillis(t) ==
    [t EXCEPT !.isActive = TRUE, !.timeRemaining = TURN_DURATION * 1000]

serverStartTurnResetsPlayer(t) ==
    [t EXCEPT !.isActive = TRUE, !.timeRemaining = TURN_DURATION,
              !.currentPlayer = 1]

\* the start-turn handler's assignments to room.turn
serverStartTurn(t) ==
    [t EXCEPT !.isActive = TRUE, !.timeRemaining = TURN_DURATION]

StartTurn(s, roomId) ==
    /\ s \in connected
    /\ TaskIdle
    /\ LET reg == roomsGet(rooms, roomId)
       IN  IF roomId \notin DOMAIN reg
           THEN /\ rooms' = reg
                /\ emitted' = {}
           ELSE LET t == serverStartTurn(reg[roomId].turn)
                IN  /\ rooms' = [reg EXCEPT ![roomId].turn = t]
                    /\ emitted' = EmitToRoom(members, roomId, "turn-started",
                                             TurnPayload(t))
    /\ UNCHANGED << connected, members, toggles, hookVars, etVars >>

serverEndTurnRoundOnPlayer2(t) ==
    LET next == IF t.currentPlayer = 1 THEN 2 ELSE 1
    IN  [currentPlayer |-> next, timeRemaining |-> TURN_DURATION,
         isActive |-> FALSE,
         round |-> IF next = 2 THEN t.round + 1 ELSE t.round]

\* the end-turn handler's assignments to room.turn, in order
serverEndTurn(t) ==
    LET next == IF t.currentPlayer = 1 THEN 2 ELSE 1
    IN  [currentPlayer |-> next, timeRemaining |-> TURN_DURATION,
         isActive |-> FALSE,
         round |-> IF next = 1 THEN t.round + 1 ELSE t.round]

EndTurn(s, roomId) ==
    /\ s \in connected
    /\ TaskIdle
    /\ LET reg == roomsGet(rooms, roomId)
       IN  IF roomId \notin DOMAIN reg
           THEN /\ rooms' = reg
                /\ emitted' = {}
           ELSE LET t == serverEndTurn(reg[roomId].turn)
                IN  /\ t.round <= MaxRound
                    /\ rooms' = [reg EXCEPT ![roomId].turn = t]
                    /\ emitted' = EmitToRoom(members, roomId, "turn-ended",
                                             TurnPayload(t))
    /\ UNCHANGED << connected, members, toggles, hookVars, etVars >>

serverResetTurnKeepsRound(t) ==
    [currentPlayer |-> 1, timeRemaining |-> TURN_DURATION,
     isActive |-> FALSE, round |-> t.round]

\* the turn object the reset-game handler assigns, whatever the turn t was
serverResetTurn(t) ==
    [currentPlayer |-> 1, timeRemaining |-> TURN_DURATION,
     isActive |-> FALSE, round |-> 1]

ResetGameResetsBpm(s, roomId) ==
    /\ s \in connected
    /\ TaskIdle
    /\ LET reg == roomsGet(rooms, roomId)
       IN  IF roomId \notin DOMAIN reg
           THEN /\ rooms' = reg
                /\ emitted' = {}
                /\ toggles' = toggles
           ELSE LET t == serverResetTurn(reg[roomId].turn)
                IN  /\ rooms' = [reg EXCEPT ![roomId].steps = createEmptySteps,
                                            ![roomId].turn = t,
                                            ![roomId].bpm = DEFAULT_BPM]
                    /\ emitted' = EmitToRoom(members, roomId, "game-reset",
                                             [steps |-> createEmptySteps,
                                              bpm |-> DEFAULT_BPM,
                                              turn |-> t])
                    /\ toggles' = [toggles EXCEPT ![roomId] = ZeroToggles]
    /\ UNCHANGED << connected, members, hookVars, etVars >>

ResetGame(s, roomId) ==
    /\ s \in connected
    /\ TaskIdle
    /\ LET reg == roomsGet(rooms, roomId)
       IN  IF roomId \notin DOMAIN reg
           THEN /\ rooms' = reg
                /\ emitted' = {}
                /\ toggles' = toggles
           ELSE LET t == serverResetTurn(reg[roomId].turn)
                IN  /\ rooms' = [reg EXCEPT ![roomId].steps = createEmptySteps,
                                            ![roomId].turn = t]
                    /\ emitted' = EmitToRoom(members, roomId, "game-reset",
                                             [steps |-> createEmptySteps,
                                              bpm |-> reg[roomId].bpm,
                                              turn |-> t])
                    /\ toggles' = [toggles EXCEPT ![roomId] = ZeroToggles]
    /\ UNCHANGED << connected, members, hookVars, etVars >>

ClearPattern(s, roomId) ==
    /\ s \in connected
    /\ TaskIdle
    /\ LET reg == roomsGet(rooms, roomId)
       IN  IF roomId \notin DOMAIN reg
           THEN /\ rooms' = reg
                /\ emitted' = {}
                /\ toggles' = toggles
           ELSE /\ rooms' = [reg EXCEPT ![roomId].steps = createEmptySteps]
                /\ emitted' = EmitToRoom(members, roomId, "pattern-cleared",
                                         NoPayload)
                /\ toggles' = [toggles EXCEPT ![roomId] = ZeroToggles]
    /\ UNCHANGED << connected, members, hookVars, etVars >>

(***************************************************************************)
(* app/hooks/useTurnManager.ts                                             *)
(***************************************************************************)
hookStartTurn(t) ==
    [t EXCEPT !.isActive = TRUE, !.timeRemaining = TURN_DURATION]

hookPauseTurn(t) == [t EXCEPT !.isActive = FALSE]

\* the state updater of endTurn
hookEndTurn(t) ==
    [currentPlayer |-> IF t.currentPlayer = 1 THEN 2 ELSE 1,
     timeRemaining |-> TURN_DURATION,
     isActive |-> FALSE,
     round |-> IF t.currentPlayer = 2 THEN t.round + 1 ELSE t.round]

\* the state updater of the interval callback
hookTick(t) ==
    LET newTime == t.timeRemaining - 1
    IN  IF newTime <= 0
        THEN [t EXCEPT !.timeRemaining = 0]
        ELSE [t EXCEPT !.timeRemaining = newTime]

\* ids that setInterval returns; an id is not handed out again while the
\* hook still holds it
TimerIds == { 1, 2, 3 }

NoTimers == [intervals |-> {}, timerIdRef |-> 0, id |-> 0, rearmed |-> FALSE]

effectCleanupMissing(ivs, id) == ivs

\* the cleanup the timer effect returns: clearInterval(id)
effectCleanup(ivs, id) == ivs \ {id}

\* clearInterval(timerIdRef.current); timerIdRef.current = null
clearTimer(tm) ==
    IF tm.timerIdRef # 0
    THEN [tm EXCEPT !.intervals = @ \ {tm.timerIdRef}, !.timerIdRef = 0]
    ELSE tm

\* the timer effect after the render that follows a state change from prev
\* to next: it runs when isActive or timeRemaining changed, first the
\* cleanup of its previous run, then its body
timerEffect(prev, next, tm) ==
    IF prev.isActive = next.isActive /\ prev.timeRemaining = next.timeRemaining
    THEN tm
    ELSE LET cleaned == effectCleanup(tm.intervals, tm.id)
         IN  IF ~next.isActive \/ next.timeRemaining <= 0
             THEN [tm EXCEPT !.intervals = cleaned, !.id = 0, !.rearmed = FALSE]
             ELSE LET free == TimerIds \ (cleaned \cup {tm.timerIdRef, tm.id})
                      new == CHOOSE n \in free : \A k \in free : n <= k
                  IN  [intervals |-> cleaned \cup {new}, timerIdRef |-> new,
                       id |-> new, rearmed |-> tm.id \in tm.intervals]

AutoEndIdle == [armed |-> FALSE, done |-> FALSE, from |-> InitialTurn]

\* the history record is cleared by the first step after a completed rotation
AutoEndNext == IF autoEnd.done THEN AutoEndIdle ELSE autoEnd

HookStartTurn ==
    /\ turn' = hookStartTurn(turn)
    /\ timers' = timerEffect(turn, turn', timers)
    /\ autoEnd' = AutoEndNext
    /\ UNCHANGED << pendingEndTurn, lastTurnEnd, serverVars, etVars, clientVars >>

HookPauseTurn ==
    /\ turn' = hookPauseTurn(turn)
    /\ timers' = timerEffect(turn, turn', timers)
    /\ autoEnd' = AutoEndNext
    /\ UNCHANGED << pendingEndTurn, lastTurnEnd, serverVars, etVars, clientVars >>

\* endTurn called from the End Turn button
HookEndTurn ==
    /\ hookEndTurn(turn).round <= MaxRound
    /\ turn' = hookEndTurn(turn)
    /\ timers' = timerEffect(turn, turn', clearTimer(timers))
    /\ lastTurnEnd' = turn.currentPlayer
    /\ autoEnd' = AutoEndNext
    /\ UNCHANGED << pendingEndTurn, serverVars, etVars, clientVars >>

HookResetGame ==
    /\ turn' = InitialTurn
    /\ timers' = timerEffect(turn, turn', clearTimer(timers))
    /\ autoEnd' = AutoEndNext
    /\ UNCHANGED << pendingEndTurn, lastTurnEnd, serverVars, etVars, clientVars >>

\* an armed interval fires: its callback runs the updater on the state as
\* it is, without a test of isActive
HookTick ==
    /\ timers.intervals # {}
    /\ turn' = hookTick(turn)
    /\ timers' = timerEffect(turn, turn', timers)
    /\ IF turn.timeRemaining - 1 <= 0
       THEN /\ pendingEndTurn < MaxPending
            /\ pendingEndTurn' = pendingEndTurn + 1
            /\ autoEnd' = [armed |-> TRUE, done |-> FALSE, from |-> turn]
       ELSE /\ pendingEndTurn' = pendingEndTurn
            /\ autoEnd' = AutoEndNext
    /\ UNCHANGED << lastTurnEnd, serverVars, etVars, clientVars >>

\* a callback scheduled by setTimeout(() => endTurn(), 0) runs
HookTimeoutEndTurn ==
    /\ pendingEndTurn > 0
    /\ hookEndTurn(turn).round <= MaxRound
    /\ pendingEndTurn' = pendingEndTurn - 1
    /\ turn' = hookEndTurn(turn)
    /\ timers' = timerEffect(turn, turn', clearTimer(timers))
    /\ lastTurnEnd' = turn.currentPlayer
    /\ autoEnd' = IF autoEnd.armed
                  THEN [autoEnd EXCEPT !.armed = FALSE, !.done = TRUE]
                  ELSE AutoEndNext
    /\ UNCHANGED << serverVars, etVars, clientVars >>

(***************************************************************************)
(* The EndTurn transition functions applied to a drawn turn state.         *)
(***************************************************************************)
TurnStates ==
    [currentPlayer : {1, 2}, timeRemaining : 0..TURN_DURATION,
     isActive : BOOLEAN, round : 1..MaxRound]

ApplyServerEndTurn ==
    /\ etBy = "none"
    /\ etOut' = serverEndTurn(etIn)
    /\ etBy' = "server"
    /\ UNCHANGED << etIn, serverVars, hookVars, clientVars >>

ApplyHookEndTurn ==
    /\ etBy = "none"
    /\ etOut' = hookEndTurn(etIn)
    /\ etBy' = "hook"
    /\ UNCHANGED << etIn, serverVars, hookVars, clientVars >>

(***************************************************************************)
(* The room page (app/routes/room.tsx), its sequencer store and useSocket: *)
(* two browsers that open the page of the same room.                       *)
(***************************************************************************)
MaxInFlight == 2

Clients == { 1, 2 }

\* the roomId of the page's URL and the player query parameter of each browser
ClientRoom == "ABC123"

ClientName(c) == IF c = 1 THEN <<65, 98>> ELSE <<66>>

\* the store's initial grid (active flags)
createInitialSteps == [i \in 0..(INSTRUMENTS - 1) |-> [j \in 0..(STEPS - 1) |-> FALSE]]

\* roomState = null; the page shows ?? defaults for its turn
NullRoomState == [present |-> FALSE, steps |-> createInitialSteps, turn |-> InitialTurn]

\* store.toggleStep: maps over the rows, so an index outside the grid changes
\* nothing
storeToggleStep(steps, i, j) ==
    IF i \in DOMAIN steps /\ j \in DOMAIN steps[i]
    THEN [steps EXCEPT ![i][j] = ~@]
    ELSE steps

\* the effect of the page on socket.roomState: it runs after a render in which
\* the roomState object changed, and copies the snapshot's grid into the store
roomStateEffect(cl, roomState) ==
    [roomState |-> roomState,
     steps |-> IF roomState.present THEN roomState.steps ELSE cl.steps]

\* setRoomState(prev => prev ? {...prev, turn: {...prev.turn, ...data}} : prev)
mergeTurn(cl, data) ==
    IF ~cl.roomState.present
    THEN cl
    ELSE roomStateEffect(cl,
             [cl.roomState EXCEPT !.turn =
                 [currentPlayer |-> data.currentPlayer,
                  timeRemaining |-> data.timeRemaining,
                  isActive |-> @.isActive,
                  round |-> data.round]])

\* what a browser does with a server message m
clientApply(cl, m) ==
    CASE m.event = "joined-room" ->
            roomStateEffect(cl, [present |-> TRUE,
                                 steps |-> m.payload.room.steps,
                                 turn |-> m.payload.room.turn])
      [] m.event = "step-toggled" ->
            [cl EXCEPT !.steps = storeToggleStep(@, m.payload.instrumentIndex,
                                                 m.payload.stepIndex)]
      [] m.event \in { "turn-started", "turn-ended" } -> mergeTurn(cl, m.payload)
      [] m.event = "game-reset" -> [cl EXCEPT !.steps = m.payload.steps]
      [] m.event = "pattern-cleared" -> [cl EXCEPT !.steps = createInitialSteps]
      [] m.event = "player-left" /\ cl.roomState.present ->
            roomStateEffect(cl, cl.roomState)
      [] OTHER -> cl

InFlight ==
    Len(outbox[1]) + Len(outbox[2]) + Len(inbox[1]) + Len(inbox[2])

Send(c, event, i, j) ==
    /\ c \in connected
    /\ InFlight < MaxInFlight
    /\ outbox' = [outbox EXCEPT ![c] =
                     Append(@, [event |-> event, instrumentIndex |-> i,
                                stepIndex |-> j])]

\* the page is opened: the connection is made and its connect handler sends
\* join-room
ClientConnect(c) ==
    /\ Connect(c)
    /\ outbox' = [outbox EXCEPT ![c] =
                     Append(@, [event |-> "join-room", instrumentIndex |-> 0,
                                stepIndex |-> 0])]
    /\ UNCHANGED << client, inbox >>

\* handleToggleStep: the store is toggled at once, then the message is sent
ClientToggleStep(c, i, j) ==
    /\ Send(c, "toggle-step", i, j)
    /\ client' = [client EXCEPT ![c].steps = storeToggleStep(@, i, j)]
    /\ UNCHANGED << inbox, serverVars, hookVars, etVars >>

\* handleClearPattern
ClientClearPattern(c) ==
    /\ Send(c, "clear-pattern", 0, 0)
    /\ client' = [client EXCEPT ![c].steps = createInitialSteps]
    /\ UNCHANGED << inbox, serverVars, hookVars, etVars >>

\* TurnControls shows Start Turn while the mirrored turn is not active and End
\* Turn Early while it is; Reset Game is always there
ClientStartTurn(c) ==
    /\ ~client[c].roomState.turn.isActive
    /\ Send(c, "start-turn", 0, 0)
    /\ UNCHANGED << client, inbox, serverVars, hookVars, etVars >>

ClientEndTurn(c) ==
    /\ client[c].roomState.turn.isActive
    /\ Send(c, "end-turn", 0, 0)
    /\ UNCHANGED << client, inbox, serverVars, hookVars, etVars >>

ClientResetGame(c) ==
    /\ Send(c, "reset-game", 0, 0)
    /\ UNCHANGED << client, inbox, serverVars, hookVars, etVars >>

\* the server takes the oldest message of a browser and runs its handler
ServerReceive(c) ==
    /\ outbox[c] # << >>
    /\ LET m == Head(outbox[c])
       IN  \/ m.event = "join-room" /\ JoinRoom(c, ClientRoom, ClientName(c))
           \/ m.event = "toggle-step"
                 /\ ToggleStep(c, ClientRoom, m.instrumentIndex, m.stepIndex)
           \/ m.event = "clear-pattern" /\ ClearPattern(c, ClientRoom)
           \/ m.event = "start-turn" /\ StartTurn(c, ClientRoom)
           \/ m.event = "end-turn" /\ EndTurn(c, ClientRoom)
           \/ m.event = "reset-game" /\ ResetGame(c, ClientRoom)
    /\ outbox' = [outbox EXCEPT ![c] = Tail(@)]
    /\ UNCHANGED << client, inbox >>

\* the handler task completes: what it sent to a browser is in flight to it
Deliver ==
    /\ TaskDone
    /\ inbox' = [c \in Clients |->
                    LET ms == { m \in emitted : m.to = c }
                    IN  IF ms = {}
                        THEN inbox[c]
                        ELSE Append(inbox[c],
                                 [msg |-> CHOOSE m \in ms : TRUE,
                                  srvTurn |-> IF ClientRoom \in DOMAIN rooms
                                              THEN rooms[ClientRoom].turn
                                              ELSE InitialTurn])]
    /\ UNCHANGED << client, outbox >>

\* a browser handles the oldest server message in flight to it
ClientReceive(c) ==
    /\ inbox[c] # << >>
    /\ client' = [client EXCEPT ![c] = clientApply(@, Head(inbox[c]).msg)]
    /\ inbox' = [inbox EXCEPT ![c] = Tail(@)]
    /\ UNCHANGED << outbox, serverVars, hookVars, etVars >>

(***************************************************************************)
(* Initial values shared by the specifications.                            *)
(***************************************************************************)
ServerInit ==
    /\ rooms = << >>
    /\ connected = {}
    /\ members = [r \in AllRoomIds |-> {}]
    /\ emitted = {}
    /\ toggles = [r \in AllRoomIds |-> ZeroToggles]

HookInit ==
    /\ turn = InitialTurn
    /\ pendingEndTurn = 0
    /\ lastTurnEnd = 0
    /\ autoEnd = [armed |-> FALSE, done |-> FALSE, from |-> InitialTurn]
    /\ timers = NoTimers

EtIdle ==
    /\ etIn = InitialTurn
    /\ etOut = InitialTurn
    /\ etBy = "none"

ClientInit ==
    /\ client = [c \in Clients |-> [steps |-> createInitialSteps,
                                   roomState |-> NullRoomState]]
    /\ outbox = [c \in Clients |-> << >>]
    /\ inbox = [c \in Clients |-> << >>]

Init == ServerInit /\ HookInit /\ EtIdle /\ ClientInit

Next ==
    \/ \E s \in Sockets : Connect(s) /\ UNCHANGED clientVars
    \/ \E s \in Sockets : Disconnect(s) /\ UNCHANGED clientVars
    \/ \E s \in Sockets, r \in RoomIds, n \in Names : JoinRoom(s, r, n) /\ UNCHANGED clientVars
    \/ \E s \in Sockets, r \in RoomIds, i \in InstrumentInputs, j \in StepInputs :
           ToggleStep(s, r, i, j) /\ UNCHANGED clientVars
    \/ \E s \in Sockets, r \in RoomIds, b \in BpmInputs : SetBpm(s, r, b) /\ UNCHANGED clientVars
    \/ \E s \in Sockets, r \in RoomIds : StartTurn(s, r) /\ UNCHANGED clientVars
    \/ \E s \in Sockets, r \in RoomIds : EndTurn(s, r) /\ UNCHANGED clientVars
    \/ \E s \in Sockets, r \in RoomIds : ResetGame(s, r) /\ UNCHANGED clientVars
    \/ \E s \in Sockets, r \in RoomIds : ClearPattern(s, r) /\ UNCHANGED clientVars
    \/ TaskDone /\ UNCHANGED clientVars

Spec == Init /\ [][Next]_vars

\* a handler that has started runs to completion
SpecFair == Spec /\ WF_vars(TaskDone /\ UNCHANGED clientVars)

\* the server with join-room and toggle-step messages that name either room
\* code, and two display names
NextRooms ==
    \/ \E s \in Sockets : Connect(s) /\ UNCHANGED clientVars
    \/ \E s \in Sockets : Disconnect(s) /\ UNCHANGED clientVars
    \/ \E s \in Sockets, r \in AllRoomIds, n \in { <<65, 98>>, <<66>> } :
           JoinRoom(s, r, n) /\ UNCHANGED clientVars
    \/ \E s \in Sockets, r \in AllRoomIds, c \in TrackedCells :
           ToggleStep(s, r, c[1], c[2]) /\ UNCHANGED clientVars
    \/ TaskDone /\ UNCHANGED clientVars

SpecRooms == Init /\ [][NextRooms]_vars

\* two browsers on the page of one room, the server, and the messages in
\* flight between them
NextClient ==
    \/ \E c \in Clients : ClientConnect(c)
    \/ \E c \in Clients, cell \in TrackedCells :
           ClientToggleStep(c, cell[1], cell[2])
    \/ \E c \in Clients : ClientClearPattern(c)
    \/ \E c \in Clients : ClientStartTurn(c)
    \/ \E c \in Clients : ClientEndTurn(c)
    \/ \E c \in Clients : ClientResetGame(c)
    \/ \E c \in Clients : ServerReceive(c)
    \/ Deliver
    \/ \E c \in Clients : ClientReceive(c)

SpecClient == Init /\ [][NextClient]_vars

\* the two browsers when their users only toggle cells and start and end
\* turns
NextToggles ==
    \/ \E c \in Clients : ClientConnect(c)
    \/ \E c \in Clients, cell \in TrackedCells :
           ClientToggleStep(c, cell[1], cell[2])
    \/ \E c \in Clients : ClientStartTurn(c)
    \/ \E c \in Clients : ClientEndTurn(c)
    \/ \E c \in Clients : ServerReceive(c)
    \/ Deliver
    \/ \E c \in Clients : ClientReceive(c)

SpecToggles == Init /\ [][NextToggles]_vars

NextTurn ==
    \/ HookStartTurn
    \/ HookPauseTurn
    \/ HookEndTurn
    \/ HookResetGame
    \/ HookTick
    \/ HookTimeoutEndTurn

SpecTurn == Init /\ [][NextTurn]_vars

InitEndTurn ==
    /\ ServerInit
    /\ HookInit
    /\ etIn \in TurnStates
    /\ etOut = etIn
    /\ etBy = "none"
    /\ ClientInit

NextEndTurn == ApplyServerEndTurn \/ ApplyHookEndTurn

SpecEndTurn == InitEndTurn /\ [][NextEndTurn]_vars

TypeOK ==
    /\ connected \subseteq Sockets
    /\ DOMAIN rooms \subseteq AllRoomIds
    /\ \A r \in DOMAIN rooms :
          /\ DOMAIN rooms[r].players \subseteq Sockets
          /\ rooms[r].turn.currentPlayer \in {1, 2}
          /\ rooms[r].turn.round \in 1..MaxRound
(***************************************************************************)
(* Properties.                                                             *)
(***************************************************************************)
PlayersOf(r) == DOMAIN rooms[r].players

\* equality of two names ignoring case, by folding to upper case
SameIgnoringCase(a, b) ==
    /\ Len(a) = Len(b)
    /\ \A k \in 1..Len(a) :
          (IF a[k] >= 97 /\ a[k] <= 122 THEN a[k] - 32 ELSE a[k])
        = (IF b[k] >= 97 /\ b[k] <= 122 THEN b[k] - 32 ELSE b[k])

NameInUse(r, n) ==
    \E p \in PlayersOf(r) : SameIgnoringCase(rooms[r].players[p].name, n)

\* C1: every room of the registry has at most 2 entries in its players map.
C1_AtMostTwoPlayers ==
    \A r \in DOMAIN rooms : Cardinality(PlayersOf(r)) <= 2

C1_Witness ==
    \E r \in DOMAIN rooms :
        /\ Cardinality(PlayersOf(r)) = 2
        /\ \E m \in emitted : m.event = "joined-room" /\ m.payload.playerNumber = 2

\* C2 (as stated): a join-room on a room with 2 players, whatever the name,
\* leaves the players map unchanged and always yields room-full.
C2_ThirdJoinAlwaysRoomFull ==
    [][\A s \in Sockets, r \in RoomIds, n \in Names :
          (/\ r \in DOMAIN rooms
           /\ Cardinality(PlayersOf(r)) = 2
           /\ JoinRoom(s, r, n))
          => /\ rooms'[r].players = rooms[r].players
             /\ emitted' = { Msg(s, "room-full", NoPayload) }]_vars

\* C2 (amended): a join-room on a room with 2 players leaves the players map
\* unchanged; it yields room-full to the joiner unless the name equals,
\* ignoring case, the name of a player of the room, and then it yields
\* join-rejected {reason: "name-taken"} to the joiner.
C2_ThirdJoinRejected ==
    [][\A s \in Sockets, r \in RoomIds, n \in Names :
          (/\ r \in DOMAIN rooms
           /\ Cardinality(PlayersOf(r)) = 2
           /\ JoinRoom(s, r, n))
          => /\ rooms'[r].players = rooms[r].players
             /\ emitted' = IF NameInUse(r, n)
                           THEN { Msg(s, "join-rejected", [reason |-> "name-taken"]) }
                           ELSE { Msg(s, "room-full", NoPayload) }]_vars

C2_Witness ==
    \E r \in DOMAIN rooms :
        /\ Cardinality(PlayersOf(r)) = 2
        /\ \E m \in emitted : m.event = "room-full" /\ m.to \notin PlayersOf(r)

\* C3: a join-room whose name equals, ignoring case, the name of a player of
\* the room is answered with join-rejected {reason: "name-taken"} to the joiner
\* only, and the room (players, grid, bpm, turn) is unchanged.
C3_NameTakenRejected ==
    [][\A s \in Sockets, r \in RoomIds, n \in Names :
          (/\ r \in DOMAIN rooms
           /\ NameInUse(r, n)
           /\ JoinRoom(s, r, n))
          => /\ emitted' = { Msg(s, "join-rejected", [reason |-> "name-taken"]) }
             /\ r \in DOMAIN rooms'
             /\ rooms'[r] = rooms[r]]_vars

C3_Witness ==
    \E r \in DOMAIN rooms :
        /\ Cardinality(PlayersOf(r)) = 1
        /\ \E m \in emitted : m.event = "join-rejected" /\ m.to \notin PlayersOf(r)

\* C4: no two players of one room have names that are equal ignoring case.
C4_UniqueNames ==
    \A r \in DOMAIN rooms :
        \A p, q \in PlayersOf(r) :
            p # q => ~SameIgnoringCase(rooms[r].players[p].name,
                                       rooms[r].players[q].name)

C4_Witness ==
    \E r \in DOMAIN rooms :
        /\ Cardinality(PlayersOf(r)) = 2
        /\ \E m \in emitted : m.event = "join-rejected"

\* C5: the players of one room hold pairwise distinct player slots.
C5_DistinctSlots ==
    \A r \in DOMAIN rooms :
        \A p, q \in PlayersOf(r) :
            p # q => rooms[r].players[p].playerNumber
                     # rooms[r].players[q].playerNumber

\* C6: the slot recorded for a connection in a room never changes while the
\* connection stays in that room's players map.
C6_SlotNeverChanges ==
    [][\A r \in DOMAIN rooms :
          \A p \in PlayersOf(r) :
              (r \in DOMAIN rooms' /\ p \in DOMAIN rooms'[r].players)
              => rooms'[r].players[p].playerNumber
                 = rooms[r].players[p].playerNumber]_vars

\* C7: a toggle-step sent during an active turn by a player whose slot is not
\* turn.currentPlayer leaves the grid unchanged, sends no step-toggled, and
\* sends not-your-turn {currentPlayer, yourPlayer} to the sender only.
C7_NotYourTurn ==
    [][\A s \in Sockets, r \in RoomIds, i \in InstrumentInputs, j \in StepInputs :
          (/\ r \in DOMAIN rooms
           /\ s \in PlayersOf(r)
           /\ rooms[r].turn.isActive
           /\ rooms[r].players[s].playerNumber # rooms[r].turn.currentPlayer
           /\ ToggleStep(s, r, i, j))
          => /\ rooms'[r].steps = rooms[r].steps
             /\ emitted' =
                  { Msg(s, "not-your-turn",
                        [currentPlayer |-> rooms[r].turn.currentPlayer,
                         yourPlayer |-> rooms[r].players[s].playerNumber]) }]_vars

C7_Witness ==
    \E r \in DOMAIN rooms :
        /\ rooms[r].turn.isActive
        /\ \E m \in emitted :
              /\ m.event = "not-your-turn"
              /\ m.to \in PlayersOf(r)
              /\ m.payload.yourPlayer # rooms[r].turn.currentPlayer

\* C8: while a turn is active, no toggle-step, clear-pattern or reset-game
\* sent by the player who is not the current player changes the room's grid.
C8_OnlyCurrentPlayerMutatesGrid ==
    [][\A s \in Sockets, r \in RoomIds :
          (/\ r \in DOMAIN rooms
           /\ s \in PlayersOf(r)
           /\ rooms[r].turn.isActive
           /\ rooms[r].players[s].playerNumber # rooms[r].turn.currentPlayer
           /\ \/ ClearPattern(s, r)
              \/ ResetGame(s, r)
              \/ \E i \in InstrumentInputs, j \in StepInputs : ToggleStep(s, r, i, j))
          => rooms'[r].steps = rooms[r].steps]_vars

\* C9: EndTurn, from an Active or an Idle turn, sets currentPlayer to the other
\* player, isActive to false and timeRemaining to 60, and increments round by
\* exactly 1 if and only if the turn that ended was player 2's.
C9_EndTurnRotates ==
    etBy # "none" =>
        /\ etOut.currentPlayer = 3 - etIn.currentPlayer
        /\ etOut.isActive = FALSE
        /\ etOut.timeRemaining = 60
        /\ etOut.round = etIn.round + (IF etIn.currentPlayer = 2 THEN 1 ELSE 0)

C9_Witness ==
    /\ etBy = "server"
    /\ ~etIn.isActive
    /\ etIn.currentPlayer = 2
    /\ etOut.round = etIn.round + 1

\* C10: once the rotation started by a Tick that brought timeRemaining to 0 has
\* run, the turn state and the turn-end notification are those an explicit
\* EndTurn produces from the state the Tick acted on.
C10_TimeoutSameAsEndTurn ==
    autoEnd.done =>
        /\ turn = hookEndTurn(autoEnd.from)
        /\ lastTurnEnd = autoEnd.from.currentPlayer
\* C11: a turn that was started and that nobody ends or resets is ended by
\* the timeout, which delivers turn-ended to the room: no room stays in an
\* active turn for ever while the server sends nothing.  Stated under SpecFair.
C11_TurnEndsByTimeout ==
    \A r \in RoomIds :
        []<>(\/ r \notin DOMAIN rooms
             \/ ~rooms[r].turn.isActive
             \/ emitted # {})

\* C12: a hook state with isActive = TRUE and timeRemaining = 0 is left only
\* by the rotation to idle (isActive = FALSE, timeRemaining = TURN_DURATION,
\* the other player current): no other event is processed against it first.
C12_ZeroIsTransient ==
    [][(turn.isActive /\ turn.timeRemaining = 0)
          => /\ ~turn'.isActive
             /\ turn'.timeRemaining = TURN_DURATION
             /\ turn'.currentPlayer # turn.currentPlayer]_vars

\* C13: reset-game on a room of the registry, whatever the room's state was,
\* leaves a grid with every cell false and the turn { currentPlayer 1,
\* timeRemaining TURN_DURATION, isActive false, round 1 }, and sends
\* game-reset with that grid and turn to every player of the room.
C13_ResetGame ==
    [][\A s \in Sockets, r \in RoomIds :
          (r \in DOMAIN rooms /\ ResetGame(s, r))
          => /\ \A i \in 0..(INSTRUMENTS - 1), j \in 0..(STEPS - 1) :
                    ~rooms'[r].steps[i][j]
             /\ rooms'[r].turn = [currentPlayer |-> 1,
                                  timeRemaining |-> TURN_DURATION,
                                  isActive |-> FALSE, round |-> 1]
             /\ { m.to : m \in emitted' } = PlayersOf(r)
             /\ \A m \in emitted' :
                    /\ m.event = "game-reset"
                    /\ m.payload.steps = rooms'[r].steps
                    /\ m.payload.turn = rooms'[r].turn]_vars

\* a game-reset in flight to both players of a room whose tempo had been
\* changed before the reset
C13_Witness ==
    \E r \in DOMAIN rooms :
        /\ Cardinality(PlayersOf(r)) = 2
        /\ rooms[r].bpm # DEFAULT_BPM
        /\ { m.to : m \in emitted } = PlayersOf(r)
        /\ \A m \in emitted : m.event = "game-reset"

\* C14: for every cell of a room's grid, the cell's active flag equals its
\* value when the grid was created or last cleared (false) XOR the number of
\* toggle-step messages applied to that cell since then, mod 2; a cell that
\* no toggle-step addressed has kept that value.
C14_ToggleParity ==
    \A r \in DOMAIN rooms :
        \A i \in 0..(INSTRUMENTS - 1), j \in 0..(STEPS - 1) :
            rooms[r].steps[i][j] =
                (<< i, j >> \in TrackedCells /\ toggles[r][<< i, j >>] = 1)

\* a second toggle of a cell has just been applied: it reports active = false
C14_Witness ==
    \E r \in DOMAIN rooms, c \in TrackedCells :
        /\ toggles[r][c] = 0
        /\ \E m \in emitted :
               /\ m.event = "step-toggled"
               /\ m.payload.instrumentIndex = c[1]
               /\ m.payload.stepIndex = c[2]
               /\ ~m.payload.active

\* C15: while the turn is idle, a toggle-step on a cell of the grid sent by a
\* player of the room, whichever player is current, flips the cell, and
\* step-toggled with the cell's new value goes to the other players.
C15_IdleToggle ==
    [][\A s \in Sockets, r \in RoomIds, c \in TrackedCells :
          (/\ r \in DOMAIN rooms
           /\ s \in PlayersOf(r)
           /\ ~rooms[r].turn.isActive
           /\ ToggleStep(s, r, c[1], c[2]))
          => /\ rooms'[r].steps[c[1]][c[2]] = ~rooms[r].steps[c[1]][c[2]]
             /\ emitted' = { Msg(t, "step-toggled",
                                 [instrumentIndex |-> c[1], stepIndex |-> c[2],
                                  active |-> ~rooms[r].steps[c[1]][c[2]],
                                  playerId |-> s]) :
                             t \in PlayersOf(r) \ {s} }]_vars

\* an idle-turn toggle by the player who is not the current player
C15_Witness ==
    \E r \in DOMAIN rooms :
        /\ ~rooms[r].turn.isActive
        /\ \E m \in emitted :
               /\ m.event = "step-toggled"
               /\ m.payload.playerId \in PlayersOf(r)
               /\ rooms[r].players[m.payload.playerId].playerNumber
                      # rooms[r].turn.currentPlayer

\* C16: the disconnect of a room's last player removes the room from the
\* registry, and a join-room naming a roomId that is not in the registry is
\* admitted as player 1 into a fresh room: the joiner its only player, every
\* cell false, bpm DEFAULT_BPM, the initial turn, whatever a room of that
\* roomId held before.
C16_FreshRoomAfterCleanup ==
    [][/\ \A s \in Sockets, r \in RoomIds :
             (r \in DOMAIN rooms /\ PlayersOf(r) = {s} /\ Disconnect(s))
             => r \notin DOMAIN rooms'
       /\ \A s \in Sockets, r \in RoomIds, n \in Names :
             (r \notin DOMAIN rooms /\ JoinRoom(s, r, n))
             => /\ r \in DOMAIN rooms'
                /\ PlayersOf(r)' = {s}
                /\ rooms'[r].players[s] = [name |-> n, playerNumber |-> 1]
                /\ \A i \in 0..(INSTRUMENTS - 1), j \in 0..(STEPS - 1) :
                       ~rooms'[r].steps[i][j]
                /\ rooms'[r].bpm = DEFAULT_BPM
                /\ rooms'[r].turn = [currentPlayer |-> 1,
                                     timeRemaining |-> TURN_DURATION,
                                     isActive |-> FALSE, round |-> 1]
                /\ \E m \in emitted' :
                       /\ m.to = s
                       /\ m.event = "joined-room"
                       /\ m.payload.playerNumber = 1
                       /\ m.payload.room.steps = rooms'[r].steps
                       /\ m.payload.room.bpm = DEFAULT_BPM
                       /\ m.payload.room.turn = rooms'[r].turn]_vars

\* the last player of a room has just disconnected and the room is gone
C16_Witness ==
    \E r \in RoomIds :
        /\ r \notin DOMAIN rooms
        /\ Log("room-deleted", r) \in emitted

\* C17: every room of the registry has at least one player.
C17_NoEmptyRoom ==
    \A r \in DOMAIN rooms : PlayersOf(r) # {}

\* one of two players has just left: the room stays, with the other player
C17_Witness ==
    \E r \in DOMAIN rooms :
        /\ Cardinality(PlayersOf(r)) = 1
        /\ \E m \in emitted : m.event = "player-left" /\ m.to \in PlayersOf(r)

\* C18: in every reachable state the tempo of every room is an integer in
\* [60, 180], whatever bpm the set-bpm messages carried.
C18_BpmInRange ==
    \A r \in DOMAIN rooms : rooms[r].bpm \in 60..180

\* C19: a toggle-step with a coordinate outside the grid raises no uncaught
\* error, and every room's grid still has exactly INSTRUMENTS rows of STEPS
\* booleans.
C19_OutOfRangeToggleSafe ==
    /\ UncaughtTypeError \notin emitted
    /\ \A r \in DOMAIN rooms :
           rooms[r].steps \in [0..(INSTRUMENTS - 1) -> [0..(STEPS - 1) -> BOOLEAN]]

\* C20: toggle-step, set-bpm, start-turn, end-turn, reset-game and
\* clear-pattern naming a roomId that is not in the registry leave the
\* registry as it was, create no room and send nothing.
C20_UnknownRoomIgnored ==
    [][\A s \in Sockets, r \in RoomIds :
          (/\ r \notin DOMAIN rooms
           /\ \/ \E i \in InstrumentInputs, j \in StepInputs : ToggleStep(s, r, i, j)
              \/ \E bpm \in BpmInputs : SetBpm(s, r, bpm)
              \/ StartTurn(s, r)
              \/ EndTurn(s, r)
              \/ ResetGame(s, r)
              \/ ClearPattern(s, r))
          => /\ rooms' = rooms
             /\ r \notin DOMAIN rooms'
             /\ emitted' = {}]_vars

\* a connection is open, no handler is running and the room has been deleted
\* or was never created: the six events can be sent with its roomId
C20_Witness ==
    \E r \in RoomIds :
        /\ r \notin DOMAIN rooms
        /\ connected # {}
        /\ TaskIdle

\* messages of the running task that go to connections
ToSockets(msgs) == { m \in msgs : m.to \in Sockets }

Recipients(msgs) == { m.to : m \in ToSockets(msgs) }

EventsOf(msgs) == { m.event : m \in ToSockets(msgs) }

\* C21: step-toggled and bpm-changed go to every player of the room except
\* the sender and never to the sender; turn-started, turn-ended, game-reset
\* and pattern-cleared go to every player of the room, the sender included.
C21_FanOut ==
    [][\A s \in Sockets, r \in RoomIds :
          r \in DOMAIN rooms =>
             /\ \A i \in InstrumentInputs, j \in StepInputs :
                   (ToggleStep(s, r, i, j) /\ rooms'[r].steps # rooms[r].steps)
                   => /\ Recipients(emitted') = PlayersOf(r) \ {s}
                      /\ EventsOf(emitted') \subseteq { "step-toggled" }
             /\ \A bpm \in BpmInputs :
                   SetBpm(s, r, bpm)
                   => /\ Recipients(emitted') = PlayersOf(r) \ {s}
                      /\ EventsOf(emitted') \subseteq { "bpm-changed" }
             /\ StartTurn(s, r)
                   => /\ Recipients(emitted') = PlayersOf(r)
                      /\ EventsOf(emitted') = { "turn-started" }
             /\ EndTurn(s, r)
                   => /\ Recipients(emitted') = PlayersOf(r)
                      /\ EventsOf(emitted') = { "turn-ended" }
             /\ ResetGame(s, r)
                   => /\ Recipients(emitted') = PlayersOf(r)
                      /\ EventsOf(emitted') = { "game-reset" }
             /\ ClearPattern(s, r)
                   => /\ Recipients(emitted') = PlayersOf(r)
                      /\ EventsOf(emitted') = { "pattern-cleared" }]_vars

\* bpm-changed sent by one of two players is in flight to the other one only
C21_Witness ==
    \E r \in DOMAIN rooms :
        /\ Cardinality(PlayersOf(r)) = 2
        /\ EventsOf(emitted) = { "bpm-changed" }
        /\ \E m \in emitted :
               /\ m.payload.playerId \in PlayersOf(r)
               /\ Recipients(emitted) = PlayersOf(r) \ {m.payload.playerId}

\* C22: an admitted join-room sends joined-room to the joiner only, with the
\* joiner's slot and a snapshot equal to the room's grid, bpm, turn and player
\* list after the join (the joiner is on the list), and sends player-joined
\* to every other player of the room and not to the joiner.
C22_JoinedRoom ==
    [][\A s \in Sockets, r \in RoomIds, n \in Names :
          (/\ JoinRoom(s, r, n)
           /\ r \in DOMAIN rooms => (~NameInUse(r, n) /\ Cardinality(PlayersOf(r)) < 2))
          => /\ s \in PlayersOf(r)'
             /\ { m \in ToSockets(emitted') : m.to = s }
                  = { Msg(s, "joined-room",
                          [playerNumber |-> rooms'[r].players[s].playerNumber,
                           room |-> [id |-> r,
                                     steps |-> rooms'[r].steps,
                                     bpm |-> rooms'[r].bpm,
                                     turn |-> rooms'[r].turn,
                                     players |->
                                        { [id |-> p,
                                           name |-> rooms'[r].players[p].name,
                                           playerNumber |->
                                              rooms'[r].players[p].playerNumber] :
                                          p \in PlayersOf(r)' }]]) }
             /\ { m \in ToSockets(emitted') : m.to # s }
                  = { Msg(t, "player-joined",
                          [playerNumber |-> rooms'[r].players[s].playerNumber,
                           player |-> [id |-> s, name |-> n]]) :
                      t \in PlayersOf(r)' \ {s} }]_vars

\* a second player has just joined a room whose grid and tempo had been changed
C22_Witness ==
    \E r \in DOMAIN rooms :
        /\ Cardinality(PlayersOf(r)) = 2
        /\ rooms[r].steps # createEmptySteps
        /\ rooms[r].bpm # DEFAULT_BPM
        /\ \E m \in emitted : m.event = "joined-room" /\ m.payload.room.steps = rooms[r].steps
        /\ \E m \in emitted : m.event = "player-joined" /\ m.to \in PlayersOf(r)

\* C23: the disconnect of one of the two players of a room removes exactly
\* that player, sends player-left {playerId} to the remaining player, and
\* leaves the room in the registry with its grid, bpm and turn and with the
\* remaining player's entry (name and slot) as they were.
C23_DisconnectOneOfTwo ==
    [][\A s \in Sockets, r \in RoomIds :
          (/\ r \in DOMAIN rooms
           /\ Cardinality(PlayersOf(r)) = 2
           /\ s \in PlayersOf(r)
           /\ Disconnect(s))
          => /\ r \in DOMAIN rooms'
             /\ PlayersOf(r)' = PlayersOf(r) \ {s}
             /\ \A p \in PlayersOf(r) \ {s} :
                    rooms'[r].players[p] = rooms[r].players[p]
             /\ rooms'[r].steps = rooms[r].steps
             /\ rooms'[r].bpm = rooms[r].bpm
             /\ rooms'[r].turn = rooms[r].turn
             /\ ToSockets(emitted')
                  = { Msg(t, "player-left", [playerId |-> s]) :
                      t \in PlayersOf(r) \ {s} }]_vars

\* player 1 has just left a room with a changed grid and tempo and an active
\* turn: the room is there with player 2, who is being notified
C23_Witness ==
    \E r \in DOMAIN rooms :
        /\ Cardinality(PlayersOf(r)) = 1
        /\ rooms[r].steps # createEmptySteps
        /\ rooms[r].bpm # DEFAULT_BPM
        /\ rooms[r].turn.isActive
        /\ \E m \in emitted :
               /\ m.event = "player-left"
               /\ m.to \in PlayersOf(r)
               /\ rooms[r].players[m.to].playerNumber = 2

\* C24: in every reachable state a connection is in the players map of at
\* most one room.  Stated under SpecRooms.
C24_OneRoomPerConnection ==
    \A s \in Sockets :
        Cardinality({ r \in DOMAIN rooms : s \in PlayersOf(r) }) <= 1

TurnInRange(t) ==
    /\ t.currentPlayer \in {1, 2}
    /\ t.timeRemaining \in 0..TURN_DURATION
    /\ t.round \in Nat /\ t.round >= 1

\* C25: the turn state of every room, and the turn state of the turn manager
\* hook, has currentPlayer 1 or 2, an integer timeRemaining in
\* [0, TURN_DURATION] and round >= 1 after every step; and round does not
\* decrease across any step other than a reset of the game.
C25_TurnStateRanges ==
    [][/\ \A r \in DOMAIN rooms' : TurnInRange(rooms'[r].turn)
       /\ \A r \in (DOMAIN rooms) \cap (DOMAIN rooms') :
             (~\E s \in Sockets : ResetGame(s, r))
             => rooms'[r].turn.round >= rooms[r].turn.round
       /\ TurnInRange(turn')
       /\ ~HookResetGame => turn'.round >= turn.round]_vars

\* an end-turn has just brought a room to round 2 with player 1 current
C25_Witness ==
    \E r \in DOMAIN rooms :
        /\ rooms[r].turn.round = 2
        /\ \E m \in emitted :
               /\ m.event = "turn-ended"
               /\ m.payload.round = 2
               /\ m.payload.currentPlayer = 1

\* C26: StartTurn, from an idle or an active turn, sets isActive to true and
\* timeRemaining to TURN_DURATION and leaves currentPlayer and round as they
\* were; the server raises no error and sends turn-started {currentPlayer,
\* timeRemaining: TURN_DURATION, round} to every player of the room.
C26_StartTurn ==
    [][/\ \A s \in Sockets, r \in RoomIds :
             (r \in DOMAIN rooms /\ StartTurn(s, r))
             => /\ rooms'[r].turn =
                     [currentPlayer |-> rooms[r].turn.currentPlayer,
                      timeRemaining |-> TURN_DURATION,
                      isActive |-> TRUE,
                      round |-> rooms[r].turn.round]
                /\ emitted' =
                     { Msg(t, "turn-started",
                           [currentPlayer |-> rooms[r].turn.currentPlayer,
                            timeRemaining |-> TURN_DURATION,
                            round |-> rooms[r].turn.round]) :
                       t \in PlayersOf(r) }
       /\ HookStartTurn
             => turn' = [currentPlayer |-> turn.currentPlayer,
                         timeRemaining |-> TURN_DURATION,
                         isActive |-> TRUE,
                         round |-> turn.round]]_vars

\* turn-started for a turn of player 2 is in flight to both players
C26_Witness ==
    \E r \in DOMAIN rooms :
        /\ Cardinality(PlayersOf(r)) = 2
        /\ rooms[r].turn.isActive
        /\ Recipients(emitted) = PlayersOf(r)
        /\ \A m \in emitted :
               m.event = "turn-started" /\ m.payload.currentPlayer = 2

\* C27: at no time are two tick timers armed: after every step at most one
\* interval is armed, and only while the turn is active with time left (a
\* state change that arms a timer cancels the timer of the previous arming
\* first); and no step lowers timeRemaining by more than 1.  Stated under
\* SpecTurn.
C27_OneTimer ==
    [][/\ Cardinality(timers'.intervals) <= 1
       /\ timers'.intervals # {} => (turn'.isActive /\ turn'.timeRemaining > 0)
       /\ turn'.timeRemaining >= turn.timeRemaining - 1]_vars

\* startTurn has run while a timer was armed for a turn with less than the
\* full time left: the old timer is cancelled and one new timer is armed
C27_Witness ==
    /\ turn.isActive
    /\ turn.timeRemaining = TURN_DURATION
    /\ timers.rearmed
    /\ Cardinality(timers.intervals) = 1

\* C28: once a turn has been ended manually or the game has been reset (the
\* turn is idle with the full TURN_DURATION on the clock), no callback that a
\* tick of the ended turn scheduled changes the turn state: the deferred
\* endTurn does not run against such a state.  Stated under SpecTurn.
C28_NoStaleRotation ==
    [][HookTimeoutEndTurn
          => ~(~turn.isActive /\ turn.timeRemaining = TURN_DURATION)]_vars

\* nothing is in flight between the browsers and the server
Quiet ==
    /\ emitted = {}
    /\ \A c \in Clients : outbox[c] = << >> /\ inbox[c] = << >>

\* C29: whenever no message is in flight, the grid of every connected browser
\* equals the server's grid of the room.  Stated under SpecClient.
C29_GridsAgree ==
    Quiet =>
        \A c \in Clients :
            (c \in connected /\ ClientRoom \in DOMAIN rooms)
            => client[c].steps = rooms[ClientRoom].steps

\* C30: after a browser has applied turn-started, turn-ended or game-reset,
\* its mirror of the turn state (currentPlayer, timeRemaining, isActive,
\* round) equals the room's turn state at the moment the server emitted the
\* notification.  Stated under SpecClient.
C30_TurnMirror ==
    [][\A c \in Clients :
          (/\ ClientReceive(c)
           /\ client[c].roomState.present
           /\ Head(inbox[c]).msg.event \in { "turn-started", "turn-ended", "game-reset" })
          => client'[c].roomState.turn = Head(inbox[c]).srvTurn]_vars

\* C31: on receiving step-toggled {instrumentIndex, stepIndex, active} a
\* browser sets its cell at that coordinate to the payload's active value,
\* whatever the cell's value was.  Stated under SpecClient.
C31_StepToggledOverwrites ==
    [][\A c \in Clients :
          (/\ ClientReceive(c)
           /\ Head(inbox[c]).msg.event = "step-toggled")
          => LET data == Head(inbox[c]).msg.payload
             IN  client'[c].steps[data.instrumentIndex][data.stepIndex]
                     = data.active]_vars

\* the step-toggled notification of a toggle of cell by player b
StepToggledBy(m, b, cell, active) ==
    /\ m.event = "step-toggled"
    /\ m.payload = [instrumentIndex |-> cell[1], stepIndex |-> cell[2],
                    active |-> active, playerId |-> b]

\* the server is about to handle a's toggle of cell, which a sent before it
\* handled the notification of b's toggle of the same cell; the cell had been
\* toggled an even number of times before the two, and the turn is idle
SecondOfTwoToggles(a, b, cell) ==
    /\ a # b
    /\ ClientRoom \in DOMAIN rooms
    /\ { a, b } = PlayersOf(ClientRoom)
    /\ ~rooms[ClientRoom].turn.isActive
    /\ outbox[a] = << [event |-> "toggle-step", instrumentIndex |-> cell[1],
                       stepIndex |-> cell[2]] >>
    /\ outbox[b] = << >>
    /\ Len(inbox[a]) = 1
    /\ StepToggledBy(inbox[a][1].msg, b, cell, TRUE)
    /\ toggles[ClientRoom][cell] = 1

\* C32: two players each send one toggle-step for the same cell while the
\* turn is idle, neither having seen the other's.  When the server has handled
\* both, in either order, the cell is back at the value it had before the two
\* (here: false), the handler of the second toggle changed no other cell,
\* and each player gets exactly one step-toggled, for the other's toggle.
\* Stated under SpecToggles.
C32_ConcurrentToggles ==
    [][\A a \in Clients, b \in Clients, cell \in TrackedCells :
          (SecondOfTwoToggles(a, b, cell) /\ ServerReceive(a))
          => /\ rooms'[ClientRoom].steps = createEmptySteps
             /\ rooms[ClientRoom].steps =
                    [createEmptySteps EXCEPT ![cell[1]][cell[2]] = TRUE]
             /\ \A m \in ToSockets(emitted') :
                    m.to = b /\ StepToggledBy(m, a, cell, FALSE)
             /\ Cardinality(ToSockets(emitted')) = 1
             /\ inbox'[a] = inbox[a]]_vars

\* both toggles are handled: the notification of b's is in flight to a, the
\* handler of a's has just sent the one for b, and the cell is inactive again
C32_Witness ==
    \E a \in Clients, b \in Clients, cell \in TrackedCells :
        /\ a # b
        /\ ClientRoom \in DOMAIN rooms
        /\ { a, b } = PlayersOf(ClientRoom)
        /\ outbox[a] = << >> /\ outbox[b] = << >>
        /\ Len(inbox[a]) = 1
        /\ StepToggledBy(inbox[a][1].msg, b, cell, TRUE)
        /\ \E m \in emitted : m.to = b /\ StepToggledBy(m, a, cell, FALSE)
        /\ ~rooms[ClientRoom].steps[cell[1]][cell[2]]
        /\ toggles[ClientRoom][cell] = 0

\* C33: start-turn and end-turn change no cell of any grid, and neither does
\* a tick (the hook's interval callback, the only tick there is); reset-game
\* is the turn transition that touches the grid: it empties it.
C33_TurnFrame ==
    [][/\ \A s \in Sockets, r \in RoomIds :
             /\ (StartTurn(s, r) \/ EndTurn(s, r))
                   => /\ DOMAIN rooms' = DOMAIN rooms
                      /\ \A q \in DOMAIN rooms : rooms'[q].steps = rooms[q].steps
             /\ (ResetGame(s, r) /\ r \in DOMAIN rooms)
                   => rooms'[r].steps = createEmptySteps
       /\ (HookTick \/ HookStartTurn \/ HookEndTurn \/ HookTimeoutEndTurn)
             => /\ rooms' = rooms
                /\ \A c \in Clients : client'[c].steps = client[c].steps]_vars

\* a turn has just been started in a room whose grid has an active cell
C33_Witness ==
    \E r \in DOMAIN rooms :
        /\ "turn-started" \in EventsOf(emitted)
        /\ rooms[r].turn.isActive
        /\ rooms[r].steps # createEmptySteps

\* C34: set-bpm from a player of the room is accepted in every turn state,
\* also from the player who is not the current one while a turn is active:
\* the room's bpm becomes the message's bpm, bpm-changed with that bpm goes to
\* the other player, and nothing else is sent (no not-your-turn).
C34_SetBpmAnyTurn ==
    [][\A s \in Sockets, r \in RoomIds, bpm \in BpmInputs :
          (/\ r \in DOMAIN rooms
           /\ s \in PlayersOf(r)
           /\ SetBpm(s, r, bpm))
          => /\ rooms'[r].bpm = bpm
             /\ emitted' = { Msg(t, "bpm-changed", [bpm |-> bpm, playerId |-> s]) :
                             t \in PlayersOf(r) \ {s} }]_vars

\* set-bpm of the player who is not the current one has just been handled
\* while a turn is active
C34_Witness ==
    \E r \in DOMAIN rooms, m \in emitted :
        /\ Cardinality(PlayersOf(r)) = 2
        /\ rooms[r].turn.isActive
        /\ m.event = "bpm-changed"
        /\ m.payload.playerId \in PlayersOf(r)
        /\ rooms[r].players[m.payload.playerId].playerNumber
               # rooms[r].turn.currentPlayer
        /\ rooms[r].bpm = m.payload.bpm
        /\ rooms[r].bpm # DEFAULT_BPM

\* C35: getRoom is idempotent by roomId.  For a roomId of the registry it
\* returns the registry as it is (the room with its players, grid, bpm and
\* turn), a second call after a first changes nothing, and no other room is
\* touched; so a join-room for a room that exists keeps the room's grid, bpm,
\* turn and the players it had.
C35_GetRoomIdempotent ==
    [][/\ \A r \in AllRoomIds :
             LET reg == getRoom(rooms, r)
             IN  /\ r \in DOMAIN reg
                 /\ r \in DOMAIN rooms => reg = rooms
                 /\ getRoom(reg, r) = reg
                 /\ \A q \in DOMAIN rooms : reg[q] = rooms[q]
       /\ \A s \in Sockets, r \in RoomIds, n \in Names :
             (JoinRoom(s, r, n) /\ r \in DOMAIN rooms)
             => /\ rooms'[r].steps = rooms[r].steps
                /\ rooms'[r].bpm = rooms[r].bpm
                /\ rooms'[r].turn = rooms[r].turn
                /\ \A p \in PlayersOf(r) \ {s} :
                       /\ p \in DOMAIN rooms'[r].players
                       /\ rooms'[r].players[p] = rooms[r].players[p]]_vars

\* a second player has just joined a room that is no longer as created
C35_Witness ==
    \E r \in DOMAIN rooms, m \in emitted :
        /\ m.event = "joined-room"
        /\ m.payload.playerNumber = 2
        /\ Cardinality(PlayersOf(r)) = 2
        /\ rooms[r].steps # createEmptySteps
        /\ rooms[r].bpm # DEFAULT_BPM
        /\ rooms[r].turn # InitialTurn

\* C36: applying turn-started, turn-ended, player-joined or player-left leaves
\* the browser's grid as it was: cells toggled since the join snapshot are not
\* put back to the snapshot's values.  Stated under SpecClient.
C36_NotificationsKeepGrid ==
    [][\A c \in Clients :
          (/\ ClientReceive(c)
           /\ Head(inbox[c]).msg.event \in
                 { "turn-started", "turn-ended", "player-joined", "player-left" })
          => client'[c].steps = client[c].steps]_vars

\* C37: set-bpm, start-turn, end-turn, reset-game, clear-pattern and
\* toggle-step sent by a connection that is not in the room's players map
\* leave the room (grid, bpm, turn state) unchanged.
C37_OnlyPlayersChangeRoom ==
    [][\A s \in Sockets, r \in RoomIds :
          (/\ r \in DOMAIN rooms
           /\ s \notin PlayersOf(r)
           /\ \/ \E bpm \in BpmInputs : SetBpm(s, r, bpm)
              \/ StartTurn(s, r)
              \/ EndTurn(s, r)
              \/ ResetGame(s, r)
              \/ ClearPattern(s, r)
              \/ \E i \in InstrumentInputs, j \in StepInputs : ToggleStep(s, r, i, j))
          => /\ r \in DOMAIN rooms'
             /\ rooms'[r] = rooms[r]]_vars

\* C38: reset-game leaves the room's bpm and its players map, slots included,
\* unchanged; clear-pattern leaves the room's bpm, players map and turn state
\* unchanged and sets every cell of the grid to false.
C38_ResetClearFrame ==
    [][\A s \in Sockets, r \in RoomIds :
          r \in DOMAIN rooms =>
             /\ ResetGame(s, r)
                   => /\ r \in DOMAIN rooms'
                      /\ rooms'[r].bpm = rooms[r].bpm
                      /\ rooms'[r].players = rooms[r].players
             /\ ClearPattern(s, r)
                   => /\ r \in DOMAIN rooms'
                      /\ rooms'[r].bpm = rooms[r].bpm
                      /\ rooms'[r].players = rooms[r].players
                      /\ rooms'[r].turn = rooms[r].turn
                      /\ \A i \in DOMAIN rooms'[r].steps :
                            \A j \in DOMAIN rooms'[r].steps[i] :
                                ~rooms'[r].steps[i][j]
                      /\ DOMAIN rooms'[r].steps = 0..(INSTRUMENTS - 1)]_vars

\* reset-game has just been handled in a room of two players whose bpm had
\* been changed
C38_Witness ==
    \E r \in DOMAIN rooms :
        /\ "game-reset" \in EventsOf(emitted)
        /\ Cardinality(PlayersOf(r)) = 2
        /\ rooms[r].bpm # DEFAULT_BPM
        /\ rooms[r].turn = InitialTurn

\* the cells at which grid b differs from grid a, a cell that only one of
\* them has included
ChangedCells(a, b) ==
    { c \in (0..INSTRUMENTS) \X (0..STEPS) :
        LET ina == c[1] \in DOMAIN a /\ c[2] \in DOMAIN a[c[1]]
            inb == c[1] \in DOMAIN b /\ c[2] \in DOMAIN b[c[1]]
        IN  \/ ina # inb
            \/ ina /\ inb /\ a[c[1]][c[2]] # b[c[1]][c[2]] }

\* C39: a toggle-step that is accepted (the room exists, the sender is one of
\* its players, and the turn is idle or the sender's) changes exactly one
\* cell of that room's grid, and leaves the room's turn state, bpm and players
\* map and every other room unchanged.
C39_ToggleFrame ==
    [][\A s \in Sockets, r \in AllRoomIds, i \in InstrumentInputs, j \in StepInputs :
          (/\ r \in DOMAIN rooms
           /\ s \in PlayersOf(r)
           /\ ~NotYourTurn(rooms[r], rooms[r].players[s])
           /\ ToggleStep(s, r, i, j))
          => /\ DOMAIN rooms' = DOMAIN rooms
             /\ Cardinality(ChangedCells(rooms[r].steps, rooms'[r].steps)) = 1
             /\ rooms'[r].turn = rooms[r].turn
             /\ rooms'[r].bpm = rooms[r].bpm
             /\ rooms'[r].players = rooms[r].players
             /\ \A q \in DOMAIN rooms : q # r => rooms'[q] = rooms[q]]_vars

====
